---------------------------- MODULE Spec2Model ----------------------------
(***************************************************************************)
(* Model of bin/templates/cordova/lib/prepare.js (cordova-android).        *)
(*                                                                         *)
(* prepare() runs updateConfigFilesFrom and updateWwwFrom synchronously    *)
(* and then three promise callbacks: updateProjectAccordingTo, then        *)
(* handleIcons + handleSplashes, then the 'updated project successfully'   *)
(* event.  Every tick of the event loop is one action.                     *)
(*                                                                         *)
(* Strings the code takes apart (package ids, version strings, file names  *)
(* matched by a glob) are sequences of one-character strings; directory    *)
(* paths are sequences of such segments, relative to locations.root.       *)
(***************************************************************************)
EXTENDS Integers, Sequences, FiniteSets, TLC

VARIABLES
    pc,             \* which callback of prepare's promise chain is pending
    promise,        \* state of the promise returned by the last prepare call
    cordovaProject, \* argument of the prepare call in flight
    config,         \* this._config: the merged platform configuration
    manifest,       \* AndroidManifest.xml: package id, version name, version code
    srcFiles,       \* files below <root>/src: [dir, base, ext] -> content
    dirs,           \* directories that exist at or below <root>/src
    res,            \* <root>/res: drawable folder (by density) -> image slots
    www,            \* platform www directory: relative path -> origin of content
    platformWww,    \* platform_www directory: set of relative file paths
    steps,          \* begin/end of every step of the call in flight or last ended
    copied          \* copyImage calls of the call in flight or last ended

vars == <<pc, promise, cordovaProject, config, manifest, srcFiles, dirs, res,
          www, platformWww, steps, copied>>

(***************************************************************************)
(* Bounds of the model.                                                    *)
(***************************************************************************)
MaxDepth == 2        \* segments in a configured package name
MaxIcons == 3        \* icon elements of config.xml
MaxSplashes == 3     \* splash elements of config.xml
MaxVersionLen == 6   \* characters of the version attribute
MaxDigits == 4       \* digits of one component of the version

(***************************************************************************)
(* String helpers.                                                         *)
(***************************************************************************)
\* String.prototype.replace(/c/g, r) for a one-character pattern
ReplaceAll(s, c, r) == [i \in 1..Len(s) |-> IF s[i] = c THEN r ELSE s[i]]

\* String.prototype.split(c) for a one-character separator
RECURSIVE Split(_, _)
Split(s, c) ==
    IF \A i \in 1..Len(s) : s[i] # c
    THEN <<s>>
    ELSE LET k == CHOOSE i \in 1..Len(s) :
                      s[i] = c /\ \A j \in 1..(i - 1) : s[j] # c
         IN  <<SubSeq(s, 1, k - 1)>> \o Split(SubSeq(s, k + 1, Len(s)), c)

\* path.join normalises the joined path: empty segments disappear
NonEmptySeg(seg) == Len(seg) > 0
PathJoin(base, segs) == base \o SelectSeq(segs, NonEmptySeg)

\* path.resolve(dir, '..')
ParentDir(dir) == IF Len(dir) = 0 THEN dir ELSE SubSeq(dir, 1, Len(dir) - 1)

IsPrefix(p, q) == Len(p) <= Len(q) /\ SubSeq(q, 1, Len(p)) = p

Digit == [c \in {"0", "1", "2", "3", "4", "5", "6", "7", "8", "9"} |->
            CASE c = "0" -> 0 [] c = "1" -> 1 [] c = "2" -> 2 [] c = "3" -> 3
              [] c = "4" -> 4 [] c = "5" -> 5 [] c = "6" -> 6 [] c = "7" -> 7
              [] c = "8" -> 8 [] c = "9" -> 9]

\* [\w] of a JavaScript regular expression, over the characters of the model
WordChar(c) == c \in (DOMAIN Digit) \cup {"a", "b", "c", "x", "_"}


(***************************************************************************)
(* The project handed to prepare (cordovaProject) and the configuration.   *)
(* An attribute that is absent reads as undefined, which the code only     *)
(* ever tests for truthiness, as it does the empty string: both are <<>>.  *)
(***************************************************************************)
Truthy(s) == Len(s) > 0

SeqsUpTo(S, n) == UNION {[1..k -> S] : k \in 1..n}

RECURSIVE JoinDots(_)
JoinDots(segs) ==
    IF Len(segs) = 1 THEN segs[1] ELSE segs[1] \o <<".">> \o JoinDots(Tail(segs))

\* segments of the configured package names
Segments == {<<"a">>, <<"b">>, <<"a", "-", "b">>}
PackageNames == {JoinDots(segs) : segs \in SeqsUpTo(Segments, MaxDepth)}

NoMerges == [exists |-> FALSE, files |-> {}]

\* no prepare call is in flight
NoProject == [id |-> <<>>, android_packageName |-> <<>>, version |-> <<>>,
              android_versionCode |-> <<>>, icons |-> <<>>, splashes |-> <<>>,
              www |-> {}, merges |-> NoMerges]

\* a plain project: one page, no icons, no splash screens, no merges
PlainProject == [NoProject EXCEPT !.id = <<"a", ".", "b">>,
                                  !.version = <<"1", ".", "0", ".", "7">>,
                                  !.www = {<< <<"i">> >>}]

\* updateConfigFilesFrom: defaults.xml replaces the platform config.xml, then
\* mergeXml(..., clobber = true) writes the attributes of the project's widget
\* element over it; every project configuration carries id and version.
UpdateConfigFilesFrom(sourceConfig) ==
    [packageName         |-> sourceConfig.id,
     android_packageName |-> sourceConfig.android_packageName,
     version             |-> sourceConfig.version,
     android_versionCode |-> sourceConfig.android_versionCode]

(***************************************************************************)
(* updateWwwFrom.  A tree is the set of the relative paths of its files; a *)
(* path is a sequence of names, a name a sequence of characters.  The      *)
(* platform www maps each path to the tree its content was copied from.    *)
(***************************************************************************)
EmptyDirTree == [p \in {} |-> ""]

\* a name the glob '*' does not match
Hidden(name) == Len(name) > 0 /\ name[1] = "."

\* the files below the entries path.join(dir, '*') expands to
GlobStar(tree) == {p \in tree : ~Hidden(p[1])}

\* shell.cp('-rf', path.join(dir, '*'), dest)
CpRf(tree, origin, dest) ==
    [p \in (DOMAIN dest) \cup GlobStar(tree) |->
        IF p \in GlobStar(tree) THEN origin ELSE dest[p]]

UpdateWwwFrom(project, platform_www) ==
    LET cleaned  == EmptyDirTree
        withWww  == CpRf(project.www, "www", cleaned)
        withPlat == CpRf(platform_www, "platform_www", withWww)
    IN  IF project.merges.exists
        THEN CpRf(project.merges.files, "merges", withPlat)
        ELSE withPlat

(***************************************************************************)
(* The sources directory.                                                  *)
(***************************************************************************)
ProjectRoot == <<>>
SrcSeg == <<"s", "r", "c">>
SourcesRoot == <<SrcSeg>>

\* path.join(locations.root, 'src', pkg.replace(/\./g, '/'))
PackageDir(pkg) == PathJoin(SourcesRoot, Split(pkg, "."))

\* shell.mkdir('-p', dir)
MkdirP(dir, ds) == ds \cup {SubSeq(dir, 1, k) : k \in 0..Len(dir)}

\* fs.readdirSync(dir).length === 0; the project root holds AndroidManifest.xml
DirEmpty(dir, files, ds) ==
    /\ dir # ProjectRoot
    /\ \A f \in DOMAIN files : f.dir # dir
    /\ \A d \in ds : d = dir \/ ParentDir(d) # dir

\* seeded fault: the loop removes a directory without looking into it
RECURSIVE RemoveEmptyDirs_Unchecked(_, _, _)
RemoveEmptyDirs_Unchecked(currentDir, files, ds) ==
    IF currentDir = SourcesRoot
    THEN ds
    ELSE IF currentDir \in ds
         THEN RemoveEmptyDirs_Unchecked(ParentDir(currentDir), files, ds \ {currentDir})
         ELSE ds

\* the loop that removes the empty directories the move left behind
RECURSIVE RemoveEmptyDirs(_, _, _)
RemoveEmptyDirs(currentDir, files, ds) ==
    IF currentDir = SourcesRoot
    THEN ds
    ELSE IF currentDir \in ds /\ DirEmpty(currentDir, files, ds)
         THEN RemoveEmptyDirs(ParentDir(currentDir), files, ds \ {currentDir})
         ELSE ds

\* shell.sed(/package [\w\.]*;/, 'package ' + pkg + ';', file)
Sed(content, pkg) ==
    IF \A i \in 1..Len(content.pkg) : WordChar(content.pkg[i]) \/ content.pkg[i] = "."
    THEN [content EXCEPT !.pkg = pkg]
    ELSE content

\* seeded fault: every file of the directory is a candidate, not only *.java
JavaFiles_AnyFile(orig_pkg, files) ==
    {f \in DOMAIN files : f.dir = PackageDir(orig_pkg) /\ files[f].activity}

\* shell.ls(<dir of orig_pkg>/*.java) filtered by grep /extends\s+CordovaActivity/
JavaFiles(orig_pkg, files) ==
    {f \in DOMAIN files :
        /\ f.dir = PackageDir(orig_pkg)
        /\ f.ext = "java" /\ ~Hidden(f.base)
        /\ files[f].activity}

\* the package id written to the manifest
PackageId(platformConfig) ==
    ReplaceAll(IF Truthy(platformConfig.android_packageName)
               THEN platformConfig.android_packageName
               ELSE platformConfig.packageName, "-", "_")

(***************************************************************************)
(* default_versionCode.                                                    *)
(***************************************************************************)
\* the result of unary plus that is not a number
NaN == -1

RECURSIVE DecimalValue(_)
DecimalValue(s) ==
    IF Len(s) = 0 THEN 0
    ELSE DecimalValue(SubSeq(s, 1, Len(s) - 1)) * 10 + Digit[s[Len(s)]]

\* unary plus on a string: '' is 0, a decimal numeral its value, else NaN
ToNumber(s) ==
    IF Len(s) = 0 THEN 0
    ELSE IF \A i \in 1..Len(s) : s[i] \in DOMAIN Digit THEN DecimalValue(s)
    ELSE NaN

\* +nums[i]; an index past the end reads undefined, and +undefined is NaN
NumAt(nums, i) == IF i <= Len(nums) THEN ToNumber(nums[i]) ELSE NaN

\* if (+nums[i]) { versionCode += +nums[i] * weight }
Weighted(nums, i, weight) ==
    IF NumAt(nums, i) # NaN /\ NumAt(nums, i) # 0 THEN NumAt(nums, i) * weight ELSE 0

\* seeded fault: the pre-release suffix after '-' is not cut off
default_versionCode_KeepSuffix(version) ==
    LET nums == Split(version, ".")
    IN  Weighted(nums, 1, 10000) + Weighted(nums, 2, 100) + Weighted(nums, 3, 1)

default_versionCode(version) ==
    LET nums == Split(Split(version, "-")[1], ".")
    IN  Weighted(nums, 1, 10000) + Weighted(nums, 2, 100) + Weighted(nums, 3, 1)

\* what setVersionCode receives: the attribute's text, or the computed number
VersionCode(platformConfig) ==
    IF Truthy(platformConfig.android_versionCode)
    THEN [text |-> platformConfig.android_versionCode, number |-> NaN]
    ELSE [text |-> <<>>, number |-> default_versionCode(platformConfig.version)]

(***************************************************************************)
(* Image resources.  An image is its source file: a name and whether the   *)
(* name ends in .9.png.  A drawable folder holds four slots: icon.png,     *)
(* icon.9.png, screen.png and screen.9.png.  In a resource, density and    *)
(* platform are "" and width and height are 0 when the attribute is absent.*)
(***************************************************************************)
NoFile == [name |-> "", nine |-> FALSE]
EmptyFolder == [icon |-> NoFile, icon9 |-> NoFile, screen |-> NoFile, screen9 |-> NoFile]

\* name.replace(/\.png$/, '.9.png')
NinePatchName(name) == IF name = "icon" THEN "icon9" ELSE "screen9"

copyImage(src, resourcesDir, density, name) ==
    LET made == IF density \in DOMAIN resourcesDir
                THEN resourcesDir
                ELSE [d \in (DOMAIN resourcesDir) \cup {density} |->
                        IF d = density THEN EmptyFolder ELSE resourcesDir[d]]
        dest == IF src.nine THEN NinePatchName(name) ELSE name
    IN  [res    |-> [made EXCEPT ![density][dest] = src],
         copied |-> [src |-> src, density |-> density, dest |-> dest]]

\* rm -f of the resource and its nine-patch twin in every res/drawable-* folder
deleteDefaultResourceAt(resourcesDir, resourceName) ==
    [d \in DOMAIN resourcesDir |->
        [resourcesDir[d] EXCEPT ![resourceName] = NoFile,
                                ![NinePatchName(resourceName)] = NoFile]]

sizeToDensityMap ==
    [size \in {36, 48, 72, 96, 144, 192} |->
        CASE size = 36 -> "ldpi" [] size = 48 -> "mdpi" [] size = 72 -> "hdpi"
          [] size = 96 -> "xhdpi" [] size = 144 -> "xxhdpi" [] size = 192 -> "xxxhdpi"]

\* android_icons is an object: its keys keep their insertion order
IndexOfKey(android_icons, density) ==
    IF \E k \in 1..Len(android_icons) : android_icons[k].density = density
    THEN CHOOSE k \in 1..Len(android_icons) : android_icons[k].density = density
    ELSE 0

\* seeded fault: a platform-specific icon already stored is overwritten like any other
parseIcon_LastWins(icon, icon_size, android_icons) ==
    LET density == IF icon.density # "" THEN icon.density
                   ELSE IF icon_size \in DOMAIN sizeToDensityMap
                        THEN sizeToDensityMap[icon_size] ELSE ""
        k == IndexOfKey(android_icons, density)
    IN  IF density = "" THEN android_icons
        ELSE IF k # 0
             THEN [android_icons EXCEPT ![k] = [density |-> density, icon |-> icon]]
             ELSE Append(android_icons, [density |-> density, icon |-> icon])

parseIcon(icon, icon_size, android_icons) ==
    LET density == IF icon.density # "" THEN icon.density
                   ELSE IF icon_size \in DOMAIN sizeToDensityMap
                        THEN sizeToDensityMap[icon_size] ELSE ""
        k == IndexOfKey(android_icons, density)
    IN  IF density = "" THEN android_icons
        ELSE IF k # 0 /\ android_icons[k].icon.platform # "" THEN android_icons
        ELSE IF k # 0
             THEN [android_icons EXCEPT ![k] = [density |-> density, icon |-> icon]]
             ELSE Append(android_icons, [density |-> density, icon |-> icon])

\* the loop over the icon elements; default_icon is <<>> while undefined
RECURSIVE IconLoop(_, _, _)
IconLoop(icons, i, acc) ==
    IF i > Len(icons) THEN acc
    ELSE LET icon == icons[i]
             size == IF icon.width # 0 THEN icon.width ELSE icon.height
         IN  IF size = 0 /\ icon.density = ""
             THEN IconLoop(icons, i + 1,
                    IF acc.default_icon # <<>> THEN acc
                    ELSE [acc EXCEPT !.default_icon = <<icon>>])
             ELSE IconLoop(icons, i + 1,
                    [acc EXCEPT !.android_icons = parseIcon(icon, size, @)])

\* for (var density in android_icons) copyImage(...)
RECURSIVE CopyIcons(_, _, _)
CopyIcons(android_icons, k, st) ==
    IF k > Len(android_icons) THEN st
    ELSE LET c == copyImage(android_icons[k].icon.src, st.res,
                            android_icons[k].density, "icon")
         IN  CopyIcons(android_icons, k + 1,
                       [res |-> c.res, copied |-> Append(st.copied, c.copied)])

handleIcons(icons, st) ==
    IF Len(icons) = 0 THEN st
    ELSE LET acc  == IconLoop(icons, 1, [android_icons |-> <<>>, default_icon |-> <<>>])
             st1  == [st EXCEPT !.res = deleteDefaultResourceAt(st.res, "icon")]
             st2  == CopyIcons(acc.android_icons, 1, st1)
         IN  IF acc.default_icon # <<>> /\ IndexOfKey(acc.android_icons, "mdpi") = 0
             THEN LET c == copyImage(acc.default_icon[1].src, st2.res, "mdpi", "icon")
                  IN  [res |-> c.res, copied |-> Append(st2.copied, c.copied)]
             ELSE st2

\* resources.forEach(...) of handleSplashes
RECURSIVE SplashLoop(_, _, _)
SplashLoop(resources, i, acc) ==
    IF i > Len(resources) THEN acc
    ELSE LET resource == resources[i]
         IN  IF resource.density = "" THEN SplashLoop(resources, i + 1, acc)
             ELSE LET c == copyImage(resource.src, acc.res, resource.density, "screen")
                  IN  SplashLoop(resources, i + 1,
                        [res      |-> c.res,
                         copied   |-> Append(acc.copied, c.copied),
                         hadMdpi  |-> acc.hadMdpi \/ resource.density = "mdpi"])

\* ConfigParser.getStaticResources sets defaultResource to every resource with
\* no width, no height and no density in turn: the last one stays (<<>>: none)
DefaultResource(resources) ==
    LET plain == SelectSeq(resources,
                    LAMBDA r : r.width = 0 /\ r.height = 0 /\ r.density = "")
    IN  IF plain = <<>> THEN <<>> ELSE <<plain[Len(plain)]>>

\* seeded fault: the default resource is copied whether or not an mdpi one was seen
handleSplashes_AlwaysDefault(resources, st) ==
    IF Len(resources) = 0 THEN st
    ELSE LET st1 == [res     |-> deleteDefaultResourceAt(st.res, "screen"),
                     copied  |-> st.copied,
                     hadMdpi |-> FALSE]
             st2 == SplashLoop(resources, 1, st1)
             def == DefaultResource(resources)
         IN  IF def # <<>>
             THEN LET c == copyImage(def[1].src, st2.res, "mdpi", "screen")
                  IN  [res |-> c.res, copied |-> Append(st2.copied, c.copied)]
             ELSE [res |-> st2.res, copied |-> st2.copied]

handleSplashes(resources, st) ==
    IF Len(resources) = 0 THEN st
    ELSE LET st1 == [res     |-> deleteDefaultResourceAt(st.res, "screen"),
                     copied  |-> st.copied,
                     hadMdpi |-> FALSE]
             st2 == SplashLoop(resources, 1, st1)
             def == DefaultResource(resources)
         IN  IF ~st2.hadMdpi /\ def # <<>>
             THEN LET c == copyImage(def[1].src, st2.res, "mdpi", "screen")
                  IN  [res |-> c.res, copied |-> Append(st2.copied, c.copied)]
             ELSE [res |-> st2.res, copied |-> st2.copied]

(***************************************************************************)
(* prepare: the synchronous part and the three callbacks of its promise.   *)
(***************************************************************************)
Begin(step) == [at |-> "begin", step |-> step]
End(step) == [at |-> "end", step |-> step]
Emitted(event) == [at |-> "emit", step |-> event]

NoError == ""
NoActivityError == "No Java files found which extend CordovaActivity."

\* module.exports.prepare up to the return of the promise: updateConfigFilesFrom
\* and updateWwwFrom run before any callback is scheduled
Prepare(projects) ==
    /\ pc = "idle"
    /\ \E project \in projects :
        /\ cordovaProject' = project
        /\ config' = UpdateConfigFilesFrom(project)
        /\ www' = UpdateWwwFrom(project, platformWww)
    /\ steps' = <<Begin("updateConfigFilesFrom"), End("updateConfigFilesFrom"),
                  Begin("updateWwwFrom"), End("updateWwwFrom")>>
    /\ copied' = <<>>
    /\ promise' = [state |-> "pending", error |-> NoError]
    /\ pc' = "updateProject"
    /\ UNCHANGED <<manifest, srcFiles, dirs, res, platformWww>>

\* seeded fault: the old activity file is never removed
MoveActivity_KeepOld(file, orig_pkg, pkg, files, ds) ==
    LET destFile == [dir |-> PackageDir(pkg), base |-> file.base, ext |-> file.ext]
    IN  [files |-> [f \in (DOMAIN files) \cup {destFile} |->
                        IF f = destFile THEN Sed(files[file], pkg) ELSE files[f]],
         dirs  |-> MkdirP(destFile.dir, ds)]

\* what updateProjectAccordingTo does to the sources once java_files[0] is known
MoveActivity(file, orig_pkg, pkg, files, ds) ==
    LET destFile == [dir |-> PackageDir(pkg), base |-> file.base, ext |-> file.ext]
        made     == MkdirP(destFile.dir, ds)
        written  == [f \in (DOMAIN files) \cup {destFile} |->
                        IF f = destFile THEN Sed(files[file], pkg) ELSE files[f]]
        removed  == [f \in (DOMAIN written) \ {file} |-> written[f]]
    IN  IF orig_pkg # pkg
        THEN [files |-> removed, dirs |-> RemoveEmptyDirs(file.dir, removed, made)]
        ELSE [files |-> written, dirs |-> made]

\* first callback: updateProjectAccordingTo(self._config, self.locations).
\* The manifest is written before the Java files are looked for; shell.ls gives
\* the candidates in directory order, so java_files[0] is any of them.
ThenUpdateProject ==
    /\ pc = "updateProject"
    /\ LET pkg        == PackageId(config)
           orig_pkg   == manifest.package
           java_files == JavaFiles(orig_pkg, srcFiles)
       IN  /\ manifest' = [package     |-> pkg,
                           versionName |-> config.version,
                           versionCode |-> VersionCode(config)]
           /\ IF java_files = {}
              THEN /\ promise' = [state |-> "rejected", error |-> NoActivityError]
                   /\ pc' = "idle"
                   /\ cordovaProject' = NoProject
                   /\ steps' = Append(steps, Begin("updateProjectAccordingTo"))
                   /\ UNCHANGED <<srcFiles, dirs>>
              ELSE /\ \E file \in java_files :
                        LET moved == MoveActivity(file, orig_pkg, pkg, srcFiles, dirs)
                        IN  srcFiles' = moved.files /\ dirs' = moved.dirs
                   /\ pc' = "resources"
                   /\ steps' = steps \o <<Begin("updateProjectAccordingTo"),
                                          End("updateProjectAccordingTo")>>
                   /\ UNCHANGED <<promise, cordovaProject>>
    /\ UNCHANGED <<config, res, www, platformWww, copied>>

\* seeded fault: the success event is emitted from the second callback, before
\* handleSplashes has run
ThenResources_EmitEarly ==
    /\ pc = "resources"
    /\ LET st0 == [res |-> res, copied |-> copied]
           st1 == handleIcons(cordovaProject.icons, st0)
           st2 == handleSplashes(cordovaProject.splashes, st1)
       IN  res' = st2.res /\ copied' = st2.copied
    /\ steps' = steps \o <<Begin("handleIcons"), End("handleIcons"),
                           Emitted("updated project successfully"),
                           Begin("handleSplashes"), End("handleSplashes")>>
    /\ pc' = "emit"
    /\ UNCHANGED <<promise, cordovaProject, config, manifest, srcFiles, dirs,
                   www, platformWww>>

\* second callback: handleIcons, then handleSplashes
ThenResources ==
    /\ pc = "resources"
    /\ LET st0 == [res |-> res, copied |-> copied]
           st1 == handleIcons(cordovaProject.icons, st0)
           st2 == handleSplashes(cordovaProject.splashes, st1)
       IN  res' = st2.res /\ copied' = st2.copied
    /\ steps' = steps \o <<Begin("handleIcons"), End("handleIcons"),
                           Begin("handleSplashes"), End("handleSplashes")>>
    /\ pc' = "emit"
    /\ UNCHANGED <<promise, cordovaProject, config, manifest, srcFiles, dirs,
                   www, platformWww>>

\* third callback: the 'updated project successfully' event; the promise is
\* fulfilled and nothing refers to the call's argument any more
ThenEmit ==
    /\ pc = "emit"
    /\ steps' = Append(steps, Emitted("updated project successfully"))
    /\ promise' = [state |-> "fulfilled", error |-> NoError]
    /\ pc' = "idle"
    /\ cordovaProject' = NoProject
    /\ UNCHANGED <<config, manifest, srcFiles, dirs, res, www, platformWww, copied>>

(***************************************************************************)
(* Initial states: a created platform project with package id a.b.         *)
(***************************************************************************)
InitialPackage == <<"a", ".", "b">>

JavaFile(dir, base) == [dir |-> dir, base |-> base, ext |-> "java"]

MainActivity   == JavaFile(PackageDir(InitialPackage), <<"M">>)
SecondActivity == JavaFile(PackageDir(InitialPackage), <<"S">>)
Helper         == JavaFile(PackageDir(InitialPackage), <<"H">>)
StaleActivity  == JavaFile(PackageDir(<<"b">>), <<"O">>)
Notes          == [dir |-> PackageDir(InitialPackage), base |-> <<"N">>, ext |-> "txt"]

\* what each of the files holds when it is there at the start
InitialContent(f) ==
    [pkg      |-> IF f = StaleActivity THEN <<"b">> ELSE InitialPackage,
     activity |-> f \in {MainActivity, SecondActivity, StaleActivity, Notes}]

SourceTree(fileSet) == [f \in fileSet |-> InitialContent(f)]

DirsOf(files) ==
    UNION {MkdirP(f.dir, {}) : f \in DOMAIN files} \cup MkdirP(PackageDir(InitialPackage), {})

\* any content of the sources directory
AnySources ==
    {SourceTree(S) : S \in SUBSET {MainActivity, SecondActivity, Helper, StaleActivity, Notes}}

\* the one file that extends CordovaActivity lies in the manifest's package
ActivityInPlace ==
    {SourceTree(S \cup {MainActivity}) : S \in SUBSET {Helper, Notes}}

TemplateImage == [name |-> "template", nine |-> FALSE]
TemplateFolder == [EmptyFolder EXCEPT !.icon = TemplateImage, !.screen = TemplateImage]
TemplateRes ==
    [d \in {"mdpi", "hdpi", "land-hdpi"} |->
        IF d = "land-hdpi" THEN [EmptyFolder EXCEPT !.screen = TemplateImage]
        ELSE TemplateFolder]
\* a template without the hdpi folder
SmallRes == [d \in {"mdpi"} |-> TemplateFolder]

IndexPath     == << <<"i">> >>
HiddenPath    == << <<".", "h">> >>
ScriptPath    == << <<"j">>, <<"a">> >>
NestedHidden  == << <<"j">>, <<".", "k">> >>
StalePath     == << <<"o">> >>
WwwPaths      == {IndexPath, HiddenPath, ScriptPath, NestedHidden}

InitWith(sources, resources, platformTrees) ==
    /\ pc = "idle"
    /\ promise = [state |-> "none", error |-> NoError]
    /\ cordovaProject = NoProject
    /\ config = UpdateConfigFilesFrom(PlainProject)
    /\ manifest = [package     |-> InitialPackage,
                   versionName |-> PlainProject.version,
                   versionCode |-> [text |-> <<>>, number |-> 1]]
    /\ srcFiles \in sources
    /\ dirs = DirsOf(srcFiles)
    /\ res \in resources
    /\ www = [p \in {IndexPath, StalePath} |-> "old"]
    /\ platformWww \in platformTrees
    /\ steps = <<>>
    /\ copied = <<>>

(***************************************************************************)
(* The projects each specification hands to prepare.                       *)
(***************************************************************************)
AndroidPackageNames == {<<>>, <<"b", ".", "a", "-", "b">>}

PackageProjects ==
    {[PlainProject EXCEPT !.id = id, !.android_packageName = apn] :
        id \in PackageNames, apn \in AndroidPackageNames}

PreparePackages == Prepare(PackageProjects)

\* prepare on a project whose sources directory holds anything
Init == InitWith(AnySources, {TemplateRes}, {{IndexPath}})
Next == PreparePackages \/ ThenUpdateProject \/ ThenResources \/ ThenEmit
Spec == Init /\ [][Next]_vars

\* prepare on a project whose one activity file lies in the manifest's package
InitActivity == InitWith(ActivityInPlace, {TemplateRes}, {{IndexPath}})
SpecActivity == InitActivity /\ [][Next]_vars

\* --- icons ---------------------------------------------------------------
Png(name) == [name |-> name, nine |-> FALSE]
NinePatch(name) == [name |-> name, nine |-> TRUE]

Resource(src, density, width, height, platform) ==
    [src |-> src, density |-> density, width |-> width, height |-> height,
     platform |-> platform]

IconChoices ==
    {Resource(Png("a"), "mdpi", 0, 0, ""),
     Resource(Png("b"), "mdpi", 0, 0, "android"),
     Resource(NinePatch("c"), "", 72, 0, ""),
     Resource(Png("d"), "", 0, 48, "android"),
     Resource(Png("e"), "", 0, 0, ""),
     Resource(Png("f"), "", 50, 48, ""),
     Resource(Png("g"), "", 0, 0, "android"),
     Resource(Png("h"), "hdpi", 48, 0, "")}

IconProjects ==
    {[PlainProject EXCEPT !.icons = icons] :
        icons \in {<<>>} \cup SeqsUpTo(IconChoices, MaxIcons)}

PrepareIcons == Prepare(IconProjects)

InitIcons == InitWith({SourceTree({MainActivity})}, {TemplateRes, SmallRes}, {{IndexPath}})
NextIcons == PrepareIcons \/ ThenUpdateProject \/ ThenResources \/ ThenEmit
SpecIcons == InitIcons /\ [][NextIcons]_vars

\* --- splash screens ------------------------------------------------------
SplashChoices ==
    {Resource(Png("a"), "mdpi", 0, 0, ""),
     Resource(NinePatch("b"), "mdpi", 0, 0, "android"),
     Resource(Png("c"), "land-hdpi", 0, 0, ""),
     Resource(Png("d"), "", 0, 0, ""),
     Resource(Png("e"), "", 48, 0, ""),
     Resource(NinePatch("f"), "", 0, 0, "android"),
     Resource(Png("g"), "xhdpi", 0, 0, "")}

SplashProjects ==
    {[PlainProject EXCEPT !.splashes = splashes] :
        splashes \in {<<>>} \cup SeqsUpTo(SplashChoices, MaxSplashes)}

PrepareSplashes == Prepare(SplashProjects)

InitSplashes == InitWith({SourceTree({MainActivity})}, {TemplateRes, SmallRes}, {{IndexPath}})
NextSplashes == PrepareSplashes \/ ThenUpdateProject \/ ThenResources \/ ThenEmit
SpecSplashes == InitSplashes /\ [][NextSplashes]_vars

\* --- www -----------------------------------------------------------------
WwwProjects ==
    {[PlainProject EXCEPT !.www = tree, !.merges = merges] :
        tree \in SUBSET WwwPaths,
        merges \in {NoMerges} \cup {[exists |-> TRUE, files |-> m] : m \in SUBSET WwwPaths}}

PrepareWww == Prepare(WwwProjects)

InitWww == InitWith({SourceTree({MainActivity})}, {TemplateRes}, SUBSET WwwPaths)
NextWww == PrepareWww \/ ThenUpdateProject \/ ThenResources \/ ThenEmit
SpecWww == InitWww /\ [][NextWww]_vars

\* --- version code --------------------------------------------------------
VersionChars == {"0", "3", ".", "-", "x"}
Versions ==
    {v \in UNION {[1..k -> VersionChars] : k \in 0..MaxVersionLen} :
        \A i \in 1..(Len(v) - MaxDigits) :
            \E j \in i..(i + MaxDigits) : v[j] \notin DOMAIN Digit}

VersionProjects ==
    {[PlainProject EXCEPT !.version = v] : v \in Versions}
    \cup {[PlainProject EXCEPT !.version = v, !.android_versionCode = code] :
            v \in {<<"3">>, <<"x">>}, code \in {<<"4", "2">>, <<"0">>, <<"x">>}}

\* the first prepare call on a created platform
PrepareVersions == promise.state = "none" /\ Prepare(VersionProjects)

InitVersions == InitWith({SourceTree({MainActivity})}, {TemplateRes}, {{IndexPath}})
NextVersions == PrepareVersions \/ ThenUpdateProject \/ ThenResources \/ ThenEmit
SpecVersions == InitVersions /\ [][NextVersions]_vars

(***************************************************************************)
(* Properties.                                                             *)
(***************************************************************************)
\* the configured package name with every '-' replaced by '_'
IsConfiguredPackage(id, platformConfig) ==
    LET name == IF platformConfig.android_packageName # <<>>
                THEN platformConfig.android_packageName
                ELSE platformConfig.packageName
    IN  /\ Len(id) = Len(name)
        /\ \A i \in 1..Len(name) : id[i] = (IF name[i] = "-" THEN "_" ELSE name[i])

\* a .java file that extends CordovaActivity lies in the package's directory
ActivityFilesIn(pkg, files) ==
    {f \in DOMAIN files : f.dir = PackageDir(pkg) /\ f.ext = "java" /\ files[f].activity}

PackageInPlace ==
    /\ IsConfiguredPackage(manifest.package, config)
    /\ \E f \in ActivityFilesIn(manifest.package, srcFiles) :
            srcFiles[f].pkg = manifest.package

C1_Step ==
    pc = "updateProject" =>
        /\ pc' = "resources"
        /\ manifest'.package # manifest.package =>
              ActivityFilesIn(manifest.package, srcFiles') = {}

\* C1: started with the one activity file in the manifest's package directory,
\* every prepare call succeeds; after updateProjectAccordingTo the manifest's
\* package id is the configured name with '-' replaced by '_', the activity file
\* lies in that package's directory and declares that package, and when the id
\* changed no activity file is left in the old package's directory.
C1_PackageFollowsConfig ==
    /\ [](promise.state # "rejected" /\ (pc # "updateProject" => PackageInPlace))
    /\ [][C1_Step]_vars

\* C1 witness: the activity moved to b/a_b (android_packageName b.a-b), its
\* package declaration follows, and the emptied a/b is gone
C1_Witness ==
    /\ promise.state = "fulfilled"
    /\ manifest.package = <<"b", ".", "a", "_", "b">>
    /\ PackageInPlace
    /\ PackageDir(InitialPackage) \notin dirs
    /\ Helper \notin DOMAIN srcFiles

FullOrder ==
    <<Begin("updateConfigFilesFrom"), End("updateConfigFilesFrom"),
      Begin("updateWwwFrom"), End("updateWwwFrom"),
      Begin("updateProjectAccordingTo"), End("updateProjectAccordingTo"),
      Begin("handleIcons"), End("handleIcons"),
      Begin("handleSplashes"), End("handleSplashes"),
      Emitted("updated project successfully")>>

\* C2: the steps of a prepare run begin and end in the one fixed order config
\* merge, www copy, manifest/package rewrite, icons, splash screens, each
\* beginning after the one before it has ended, and the success event comes
\* after all five have ended; a fulfilled promise has seen them all.
C2_FixedOrder ==
    /\ Len(steps) <= Len(FullOrder)
    /\ steps = SubSeq(FullOrder, 1, Len(steps))
    /\ promise.state = "fulfilled" => steps = FullOrder
    /\ pc = "emit" => Len(steps) = Len(FullOrder) - 1

\* C2 witness: a run that went through all five steps and emitted the event
C2_Witness == promise.state = "fulfilled" /\ steps = FullOrder /\ pc = "idle"

NoActivityIn(pkg, files) ==
    \A f \in DOMAIN files :
        (f.dir = PackageDir(pkg) /\ f.ext = "java") => ~files[f].activity

RunStopped ==
    /\ pc = "idle"
    /\ \A i \in 1..Len(steps) :
          /\ steps[i].step \notin {"handleIcons", "handleSplashes"}
          /\ steps[i].at # "emit"
          /\ steps[i] # End("updateProjectAccordingTo")

C3_Step ==
    (pc = "updateProject" /\ NoActivityIn(manifest.package, srcFiles)) =>
        /\ promise' = [state |-> "rejected", error |-> NoActivityError]
        /\ UNCHANGED <<srcFiles, dirs, res>>
        /\ RunStopped'

\* C3: when no .java file in the directory of the manifest's original package
\* extends CordovaActivity, updateProjectAccordingTo throws the CordovaError and
\* prepare's promise is rejected with it: the sources and res are unchanged,
\* handleIcons and handleSplashes do not run and the success event is not
\* emitted for that run.
C3_MissingActivityIsFatal ==
    /\ [](promise.state = "rejected" =>
            (promise.error = NoActivityError /\ RunStopped))
    /\ [][C3_Step]_vars

\* C3 witness: a rejected run on sources that hold files but no activity file
\* in the manifest's original package
C3_Witness ==
    /\ promise.state = "rejected"
    /\ Notes \in DOMAIN srcFiles /\ StaleActivity \in DOMAIN srcFiles
    /\ res = TemplateRes

\* nothing is left at or below the directory
NothingBelow(dir, files, ds) ==
    /\ \A f \in DOMAIN files : ~IsPrefix(dir, f.dir)
    /\ \A d \in ds : ~IsPrefix(dir, d)

\* the directory has no entry
HasNoEntry(dir, files, ds) ==
    /\ \A f \in DOMAIN files : f.dir # dir
    /\ \A d \in ds : ~(Len(d) = Len(dir) + 1 /\ IsPrefix(dir, d))

C8_Step ==
    (pc = "updateProject" /\ pc' = "resources") =>
        LET old          == PackageDir(manifest.package)
            removedDirs  == dirs \ dirs'
            removedFiles == (DOMAIN srcFiles) \ (DOMAIN srcFiles')
            Chain(k)     == SubSeq(old, 1, k)
        IN  /\ SourcesRoot \in dirs' /\ ProjectRoot \in dirs'
            /\ manifest'.package = manifest.package =>
                  (removedDirs = {} /\ removedFiles = {})
            /\ \A f \in removedFiles :
                  f.dir = old /\ f.ext = "java" /\ srcFiles[f].activity
            /\ Cardinality(removedFiles) <= 1
            /\ \A d \in removedDirs :
                  /\ IsPrefix(d, old) /\ IsPrefix(SourcesRoot, d) /\ d # SourcesRoot
                  /\ NothingBelow(d, srcFiles', dirs')
                  /\ d # old => Chain(Len(d) + 1) \in removedDirs
            /\ manifest'.package # manifest.package =>
                  \A k \in 2..Len(old) :
                      (/\ Chain(k) \in dirs'
                       /\ (k = Len(old) \/ Chain(k + 1) \in removedDirs))
                      => ~HasNoEntry(Chain(k), srcFiles', dirs')

\* C8: when the package id changed, the clean-up removes the moved activity
\* file and then, walking upward from the old package directory, only
\* directories that are empty when visited; it stops at the first directory
\* that is not empty and never removes the sources root or the project root;
\* when the package id did not change, no file or directory is removed.
C8_CleanUpRemovesOnlyEmptyDirs == [][C8_Step]_vars

\* C8 witness: the walk removed src/a/b and src/a and stopped at the sources root
C8_Witness ==
    /\ pc = "resources"
    /\ manifest.package = <<"b">>
    /\ <<SrcSeg, <<"a">>>> \notin dirs
    /\ SourcesRoot \in dirs

\* C8 second case: the walk stopped at once, at a directory that is not empty
C8_WitnessStopped ==
    /\ pc = "resources"
    /\ manifest.package = <<"b">>
    /\ Helper \in DOMAIN srcFiles
    /\ MainActivity \notin DOMAIN srcFiles
    /\ JavaFile(PackageDir(<<"b">>), <<"M">>) \in DOMAIN srcFiles

\* --- C4 ------------------------------------------------------------------
IsPlain(r) == r.width = 0 /\ r.height = 0 /\ r.density = ""

SizeOf(r) == IF r.width # 0 THEN r.width ELSE r.height

\* an icon's density: its density attribute, or else the one its size maps to
\* ("" when it maps to none)
DensityOfIcon(r) ==
    IF r.density # "" THEN r.density
    ELSE CASE SizeOf(r) = 36 -> "ldpi" [] SizeOf(r) = 48 -> "mdpi"
           [] SizeOf(r) = 72 -> "hdpi" [] SizeOf(r) = 96 -> "xhdpi"
           [] SizeOf(r) = 144 -> "xxhdpi" [] SizeOf(r) = 192 -> "xxxhdpi"
           [] OTHER -> ""

Candidates(icons, d) ==
    {i \in 1..Len(icons) : ~IsPlain(icons[i]) /\ DensityOfIcon(icons[i]) = d}

Min(S) == CHOOSE x \in S : \A y \in S : x <= y
Max(S) == CHOOSE x \in S : \A y \in S : x >= y

\* the first platform-specific icon of the density, or else the last icon of it
ChosenIcon(icons, d) ==
    LET platformOnes == {i \in Candidates(icons, d) : icons[i].platform # ""}
    IN  IF platformOnes # {} THEN icons[Min(platformOnes)]
        ELSE icons[Max(Candidates(icons, d))]

PlainIcons(icons) == {i \in 1..Len(icons) : IsPlain(icons[i])}

AllDensities ==
    {"ldpi", "mdpi", "hdpi", "xhdpi", "xxhdpi", "xxxhdpi", "land-hdpi"} \cup DOMAIN res

CopiesInto(d, name) ==
    SelectSeq(copied, LAMBDA c : c.density = d /\ c.dest \in {name, NinePatchName(name)})

ImageCopy(src, d, name) ==
    [src |-> src, density |-> d,
     dest |-> IF src.nine THEN NinePatchName(name) ELSE name]

\* the folder holds the image as its only icon
OnlyIconIn(d, src) ==
    /\ d \in DOMAIN res
    /\ res[d][IF src.nine THEN "icon9" ELSE "icon"] = src
    /\ res[d][IF src.nine THEN "icon" ELSE "icon9"] = NoFile

\* C4: for a non-empty icon list and every density d that some icon has (by
\* its density attribute, or else by its width, or its height when it has no
\* width, through 36=ldpi ... 192=xxxhdpi), handleIcons copies exactly one icon
\* into drawable-d: the first platform-specific icon of that density, or else
\* the last icon of that density; icons whose size maps to no density are
\* ignored; the default icon (the first with no width, height or density) is
\* copied to drawable-mdpi exactly when no icon was chosen for mdpi; nothing
\* else is copied.
C4_IconPerDensity ==
    (pc = "emit" /\ Len(cordovaProject.icons) > 0) =>
        LET icons == cordovaProject.icons
        IN  \A d \in AllDensities :
              IF Candidates(icons, d) # {}
              THEN /\ CopiesInto(d, "icon") = <<ImageCopy(ChosenIcon(icons, d).src, d, "icon")>>
                   /\ OnlyIconIn(d, ChosenIcon(icons, d).src)
              ELSE IF d = "mdpi" /\ PlainIcons(icons) # {}
              THEN LET def == icons[Min(PlainIcons(icons))]
                   IN  /\ CopiesInto(d, "icon") = <<ImageCopy(def.src, d, "icon")>>
                       /\ OnlyIconIn(d, def.src)
              ELSE /\ CopiesInto(d, "icon") = <<>>
                   /\ d \in DOMAIN res => (res[d].icon = NoFile /\ res[d].icon9 = NoFile)

\* C4 witness: three mdpi icons, the second and third platform-specific (the
\* third through its height): the second one is the icon of drawable-mdpi
C4_Witness ==
    /\ pc = "emit"
    /\ cordovaProject.icons = <<Resource(Png("a"), "mdpi", 0, 0, ""),
                                Resource(Png("b"), "mdpi", 0, 0, "android"),
                                Resource(Png("d"), "", 0, 48, "android")>>
    /\ res["mdpi"].icon = Png("b")

\* --- C7 ------------------------------------------------------------------
WithDensity(resources) == SelectSeq(resources, LAMBDA r : r.density # "")

ExpectedSplashCopies(resources) ==
    LET dense == WithDensity(resources)
        def   == DefaultResource(resources)
    IN  [i \in 1..Len(dense) |-> ImageCopy(dense[i].src, dense[i].density, "screen")]
        \o (IF def # <<>> /\ \A i \in 1..Len(resources) : resources[i].density # "mdpi"
            THEN <<ImageCopy(def[1].src, "mdpi", "screen")>>
            ELSE <<>>)

\* the image the copies leave in a slot of a folder (NoFile: none)
LastInto(copies, d, slot) ==
    LET hits == {i \in 1..Len(copies) : copies[i].density = d /\ copies[i].dest = slot}
    IN  IF hits = {} THEN NoFile ELSE copies[Max(hits)].src

C7_Step ==
    (pc = "resources" /\ cordovaProject.splashes = <<>> /\ cordovaProject.icons = <<>>)
        => UNCHANGED <<res, copied>>

\* C7: for a non-empty splash list, handleSplashes copies every resource that
\* has a density into drawable-<density> as the screen image, in list order (the
\* later of two copies into the same file stays), skips the resources without a
\* density, and then copies the default resource to drawable-mdpi exactly when
\* there is one and no resource has density 'mdpi'; for an empty list it
\* changes nothing under res.
C7_SplashCopies ==
    /\ []((pc = "emit" /\ Len(cordovaProject.splashes) > 0) =>
            LET expected == ExpectedSplashCopies(cordovaProject.splashes)
            IN  /\ copied = expected
                /\ \A d \in DOMAIN res : \A slot \in {"screen", "screen9"} :
                      res[d][slot] = LastInto(expected, d, slot)
                /\ \A i \in 1..Len(expected) : expected[i].density \in DOMAIN res)
    /\ [][C7_Step]_vars

\* C7 witness: a nine-patch mdpi splash after a png one, a resource without a
\* density between them: both screen files are in drawable-mdpi, the default
\* resource is not copied
C7_Witness ==
    /\ pc = "emit"
    /\ cordovaProject.splashes = <<Resource(Png("a"), "mdpi", 0, 0, ""),
                                   Resource(Png("d"), "", 0, 0, ""),
                                   Resource(NinePatch("b"), "mdpi", 0, 0, "android")>>
    /\ res["mdpi"].screen = Png("a") /\ res["mdpi"].screen9 = NinePatch("b")
    /\ Len(copied) = 2

\* --- C5 ------------------------------------------------------------------
MergesFiles(project) == IF project.merges.exists THEN project.merges.files ELSE {}

OriginByPrecedence(p, project) ==
    IF p \in MergesFiles(project) THEN "merges"
    ELSE IF p \in platformWww THEN "platform_www"
    ELSE "www"

\* C5: after updateWwwFrom the platform www holds exactly the union of the files
\* of the project's www, of platform_www and of merges/android, nothing that was
\* there before, and each path's content comes from merges/android first, else
\* from platform_www, else from the project's www.
C5_WwwIsUnionOfSources ==
    pc = "updateProject" =>
        /\ DOMAIN www = cordovaProject.www \cup platformWww \cup MergesFiles(cordovaProject)
        /\ \A p \in DOMAIN www : www[p] = OriginByPrecedence(p, cordovaProject)

\* what the code does keep of C5: the same, for the files that are not below a
\* top-level entry whose name begins with '.'
WwwIsUnionOfVisibleSources ==
    pc = "updateProject" =>
        LET all == cordovaProject.www \cup platformWww \cup MergesFiles(cordovaProject)
        IN  /\ DOMAIN www = {p \in all : p[1][1] # "."}
            /\ \A p \in DOMAIN www : www[p] = OriginByPrecedence(p, cordovaProject)

\* --- C6 ------------------------------------------------------------------
\* the version string before its first '-'
BeforeDash(v) ==
    LET dashes == {i \in 1..Len(v) : v[i] = "-"}
    IN  IF dashes = {} THEN v ELSE SubSeq(v, 1, Min(dashes) - 1)

\* the k-th dot-separated component of s (<<>> when it is missing)
Component(s, k) ==
    LET dots   == {i \in 1..Len(s) : s[i] = "."}
        DotsBefore(i) == Cardinality({j \in dots : j < i})
        chars  == {i \in 1..Len(s) : s[i] # "." /\ DotsBefore(i) = k - 1}
    IN  IF chars = {} THEN <<>> ELSE SubSeq(s, Min(chars), Max(chars))

RECURSIVE Pow10(_)
Pow10(n) == IF n = 0 THEN 1 ELSE 10 * Pow10(n - 1)

RECURSIVE SumOver(_, _)
SumOver(f, S) ==
    IF S = {} THEN 0 ELSE LET x == CHOOSE y \in S : TRUE IN f[x] + SumOver(f, S \ {x})

\* the value of a component: its number, or 0 when it is not a number
ComponentValue(c) ==
    IF c # <<>> /\ \A i \in 1..Len(c) : c[i] \in {"0", "1", "2", "3", "4", "5", "6", "7", "8", "9"}
    THEN SumOver([i \in 1..Len(c) |-> Digit[c[i]] * Pow10(Len(c) - i)], 1..Len(c))
    ELSE 0

\* PATCH + MINOR * 100 + MAJOR * 10000
VersionCodeOf(version) ==
    LET head == BeforeDash(version)
    IN  ComponentValue(Component(head, 3)) + ComponentValue(Component(head, 2)) * 100
        + ComponentValue(Component(head, 1)) * 10000

=============================================================================
